---- MODULE Spec2Model ----
(***************************************************************************)
(* constructor-lite: the ConstructorLite derive macro (src/src/lib.rs).    *)
(*                                                                         *)
(* One derive invocation is modelled as a run of three steps:              *)
(*   FromDeriveInput  darling's parse of the item into ConstructorLite,    *)
(*                    with the supports(struct_named) shape check and the  *)
(*                    per-field and_then hook Field::not_both;             *)
(*   Constructor      ConstructorLite::constructor, the whole function;    *)
(*   WriteErrors      the unwrap_or_else arm that renders diagnostics.     *)
(* path_is_option is a pure function; SpecPath applies it to every path    *)
(* over a small alphabet of segment names.                                 *)
(***************************************************************************)
EXTENDS Integers, Sequences, FiniteSets, TLC

VARIABLES input, pc, constructor_lite, errors, output, path, pathPc, is_option

vars == <<input, pc, constructor_lite, errors, output, path, pathPc, is_option>>

(* ------------------------------ bounds --------------------------------- *)

\* Longest field list of a derive input.
MaxFields == 2

\* Longest path (in segments) given to path_is_option in SpecPath.
MaxSegs == 4

(* ------------------------------ syntax --------------------------------- *)

\* Option<T>::None.
None == "None"

\* syn::Type: Type::Path carries a syn::Path (leading_colon, segments);
\* every other variant is a type that is not a path.  For those `segments`
\* names the type the variant wraps.
TypePath(leading_colon, segments) ==
    [kind |-> "Path", leading_colon |-> leading_colon, segments |-> segments]

TypeReference(segments) ==
    [kind |-> "Reference", leading_colon |-> FALSE, segments |-> segments]

\* The five spellings of Option listed in path_is_option's comments.
OptionSpellings ==
    { TypePath(FALSE, <<"Option">>),
      TypePath(FALSE, <<"core", "option", "Option">>),
      TypePath(TRUE,  <<"core", "option", "Option">>),
      TypePath(FALSE, <<"std", "option", "Option">>),
      TypePath(TRUE,  <<"std", "option", "Option">>) }

\* The field types a derive input is built from.
FieldTypes ==
    OptionSpellings \cup
    { TypePath(FALSE, <<"String">>),
      TypePath(TRUE,  <<"Option">>),
      TypePath(FALSE, <<"std", "option", "Option", "Inner">>),
      TypeReference(<<"str">>) }

\* Segment names of the paths of SpecPath.
Idents == {"Option", "option", "core", "std", "MyOption"}

\* Every path of 1..MaxSegs segments over Idents, with and without `::`.
Paths ==
    { TypePath(lc, s) :
        lc \in BOOLEAN, s \in UNION { [1..k -> Idents] : k \in 1..MaxSegs } }

\* The item shapes darling distinguishes (plus union, which it rejects).
Shapes == {"struct_named", "struct_tuple", "struct_unit", "enum", "union"}

\* A field list built from one (type, required, default) triple per field:
\* the i-th declared field is named i.
FieldList(g) ==
    [i \in DOMAIN g |-> [ident    |-> i,
                         ty       |-> g[i][1],
                         required |-> g[i][2],
                         default  |-> g[i][3]]]

\* syn::DeriveInput as darling reads it: the item's visibility and shape,
\* its fields, and the item-level #[constructor(name, visibility)] values.
DeriveInput(shape, vis, fields, name, visibility) ==
    [shape |-> shape, vis |-> vis, ident |-> "Movie", fields |-> fields,
     name |-> name, visibility |-> visibility]

\* Only structs with named or unnamed fields carry fields of their own.
HasFields(shape) == shape \in {"struct_named", "struct_tuple"}

NoInput ==
    [shape |-> "struct_unit", vis |-> "inherited", ident |-> "Movie",
     fields |-> <<>>, name |-> None, visibility |-> None]

NoReceiver ==
    [vis |-> "inherited", ident |-> "", data |-> "none", fields |-> <<>>,
     name |-> None, visibility |-> None]

NoOutput ==
    [kind |-> "none", ident |-> "", vis |-> "", name |-> "",
     arguments |-> <<>>, body |-> <<>>]

NoPath == TypePath(FALSE, <<"Option">>)

(* --------------------------- path_is_option ---------------------------- *)

\* segments.next().map(|seg| seg.ident == ...).unwrap_or(false) for the
\* i-th call of next(): false when the iterator is exhausted.
NextSegmentIs(segments, i, names) ==
    IF i <= Len(segments) THEN segments[i] \in names ELSE FALSE

\* Mutant: the leading-colon test of the bare spelling guards every spelling.
path_is_option_no_colon(p) ==
    /\ ~p.leading_colon
    /\ \/ Len(p.segments) = 1 /\ p.segments[1] = "Option"
       \/ /\ NextSegmentIs(p.segments, 1, {"core", "std"})
          /\ NextSegmentIs(p.segments, 2, {"option"})
          /\ NextSegmentIs(p.segments, 3, {"Option"})

path_is_option(p) ==
    IF /\ ~p.leading_colon
       /\ Len(p.segments) = 1
       /\ p.segments[1] = "Option"
    THEN TRUE
    ELSE /\ NextSegmentIs(p.segments, 1, {"core", "std"})
         /\ NextSegmentIs(p.segments, 2, {"option"})
         /\ NextSegmentIs(p.segments, 3, {"Option"})

(* ------------------------------ parsing -------------------------------- *)

ConflictingDirectives(f) == [kind |-> "ConflictingDirectives", field |-> f.ident]

UnsupportedShape == [kind |-> "UnsupportedShape", field |-> 0]

\* Mutant: the hook accepts every field.
not_both_accepts(f) == <<>>

\* Field::not_both: the errors the hook returns for one field
\* (Err(..) is one error, Ok(self) none).
not_both(f) ==
    IF f.required /\ f.default THEN <<ConflictingDirectives(f)>> ELSE <<>>

\* darling runs Field::from_field on every field and accumulates the errors.
RECURSIVE from_fields(_)
from_fields(fields) ==
    IF fields = <<>> THEN <<>>
    ELSE from_fields(SubSeq(fields, 1, Len(fields) - 1))
             \o not_both(fields[Len(fields)])

\* Mutant: tuple structs pass the shape check.
supports_any_fields(shape) == shape \in {"struct_named", "struct_tuple"}

\* #[darling(supports(struct_named))]
supports(shape) == shape = "struct_named"

(* ---------------------------- constructor ------------------------------ *)

\* Mutant: the type shape is looked at before the directives.
classify_type_first(f) ==
    IF f.ty.kind = "Path" /\ path_is_option(f.ty) THEN "optional"
    ELSE IF f.required THEN "required"
    ELSE IF f.default THEN "optional"
    ELSE "required"

\* One iteration of the loop over the fields: which list the field goes to.
\* A field with neither directive whose type is not Type::Path goes to none.
classify(f) ==
    IF f.required THEN "required"
    ELSE IF f.default THEN "optional"
    ELSE IF f.ty.kind = "Path"
         THEN IF path_is_option(f.ty) THEN "optional" ELSE "required"
         ELSE "skipped"

\* quote!(#ident: #ty)
Argument(f) == [ident |-> f.ident, ty |-> f.ty]

NoLists ==
    [arguments |-> <<>>, required_field_idents |-> <<>>,
     optional_field_idents |-> <<>>]

\* The loop `for Field {..} in fields.iter()`: the three vectors after the
\* last field; each push appends.
RECURSIVE collect(_)
collect(fields) ==
    IF fields = <<>> THEN NoLists
    ELSE LET f == fields[Len(fields)]
             l == collect(SubSeq(fields, 1, Len(fields) - 1))
         IN  IF classify(f) = "required"
             THEN [l EXCEPT !.arguments = Append(@, Argument(f)),
                            !.required_field_idents = Append(@, f.ident)]
             ELSE IF classify(f) = "optional"
             THEN [l EXCEPT !.optional_field_idents = Append(@, f.ident)]
             ELSE l

\* visibility.as_ref().unwrap_or(vis)
effective_vis(visibility, vis) == IF visibility # None THEN visibility ELSE vis

\* Mutant: the function is always called `new`.
effective_name_new(name) == "new"

\* name.clone().unwrap_or_else(|| Ident::new("new", Span::call_site()))
effective_name(name) == IF name # None THEN name ELSE "new"

\* Self { #(#required_field_idents,)* #(#optional_field_idents: Default::default(),)* }
Shorthand(ids) == [i \in 1..Len(ids) |-> [ident |-> ids[i], value |-> "argument"]]

Defaulted(ids) == [i \in 1..Len(ids) |-> [ident |-> ids[i], value |-> "default"]]

\* Mutant: the defaulted fields are written first.
struct_literal_defaults_first(required_field_idents, optional_field_idents) ==
    Defaulted(optional_field_idents) \o Shorthand(required_field_idents)

struct_literal(required_field_idents, optional_field_idents) ==
    Shorthand(required_field_idents) \o Defaulted(optional_field_idents)

\* The quote!( impl .. { #vis fn #name ( #(#arguments),* ) -> Self {..} } ).
impl_block(c) ==
    LET l == collect(c.fields)
    IN  [kind      |-> "impl",
         ident     |-> c.ident,
         vis       |-> effective_vis(c.visibility, c.vis),
         name      |-> effective_name(c.name),
         arguments |-> l.arguments,
         body      |-> struct_literal(l.required_field_idents,
                                      l.optional_field_idents)]

(* ------------------------------ actions -------------------------------- *)

Init ==
    /\ \E shape \in Shapes, vis \in {"inherited", "pub"},
          name \in {None, "from_name"}, visibility \in {None, "pub(super)"},
          k \in 0..MaxFields :
          \E g \in [1..k -> FieldTypes \X BOOLEAN \X BOOLEAN] :
              /\ HasFields(shape) \/ k = 0
              /\ input = DeriveInput(shape, vis, FieldList(g), name, visibility)
    /\ pc = "start"
    /\ constructor_lite = NoReceiver
    /\ errors = <<>>
    /\ output = NoOutput
    /\ path = NoPath
    /\ pathPc = "idle"
    /\ is_option = FALSE

\* ConstructorLite::from_derive_input.  The shape check and the fields'
\* hooks both report into darling's error accumulator; whether the fields
\* of a rejected shape are still visited depends on the darling release, so
\* both outcomes are allowed.
FromDeriveInput ==
    /\ pc = "start"
    /\ \E visit_fields \in BOOLEAN :
         LET shape_errors == IF supports(input.shape) THEN <<>>
                             ELSE <<UnsupportedShape>>
             field_errors == IF shape_errors = <<>> \/ visit_fields
                             THEN from_fields(input.fields) ELSE <<>>
             errs == shape_errors \o field_errors
         IN  IF errs = <<>>
             THEN /\ constructor_lite' =
                        [vis |-> input.vis, ident |-> input.ident,
                         data |-> "Struct", fields |-> input.fields,
                         name |-> input.name, visibility |-> input.visibility]
                  /\ pc' = "parsed"
                  /\ UNCHANGED errors
             ELSE /\ errors' = errs
                  /\ pc' = "failed"
                  /\ UNCHANGED constructor_lite
    /\ UNCHANGED <<input, output, path, pathPc, is_option>>

\* ConstructorLite::constructor, called by and_then on a parsed receiver.
Constructor ==
    /\ pc = "parsed"
    /\ IF constructor_lite.data # "Struct"
       THEN /\ errors' = <<UnsupportedShape>>
            /\ pc' = "failed"
            /\ UNCHANGED output
       ELSE /\ output' = impl_block(constructor_lite)
            /\ pc' = "done"
            /\ UNCHANGED errors
    /\ UNCHANGED <<input, constructor_lite, path, pathPc, is_option>>

\* unwrap_or_else(|e| e.write_errors().into())
WriteErrors ==
    /\ pc = "failed"
    /\ output' = [NoOutput EXCEPT !.kind = "compile_error"]
    /\ pc' = "done"
    /\ UNCHANGED <<input, constructor_lite, errors, path, pathPc, is_option>>

Next == FromDeriveInput \/ Constructor \/ WriteErrors

Spec == Init /\ [][Next]_vars

\* path_is_option on its own, over every path of Paths.
InitPath ==
    /\ input = NoInput
    /\ pc = "idle"
    /\ constructor_lite = NoReceiver
    /\ errors = <<>>
    /\ output = NoOutput
    /\ path \in Paths
    /\ pathPc = "called"
    /\ is_option = FALSE

PathIsOption ==
    /\ pathPc = "called"
    /\ is_option' = path_is_option(path)
    /\ pathPc' = "returned"
    /\ UNCHANGED <<input, pc, constructor_lite, errors, output, path>>

NextPath == PathIsOption

SpecPath == InitPath /\ [][NextPath]_vars

(* ------------------------------ claims --------------------------------- *)

\* A constructor function was emitted for the input.
Emitted == pc = "done" /\ output.kind = "impl"

Fields == { input.fields[i] : i \in 1..Len(input.fields) }

Neither(f) == ~f.required /\ ~f.default

Conflicting(f) == f.required /\ f.default

\* The recognizer's verdict on a declared type.
Recognized(ty) == ty.kind = "Path" /\ path_is_option(ty)

\* The field is a parameter of the emitted function, named and typed as declared.
IsParameter(f) ==
    \E j \in 1..Len(output.arguments) : output.arguments[j] = Argument(f)

ParameterNamed(f) ==
    \E j \in 1..Len(output.arguments) : output.arguments[j].ident = f.ident

\* The assignments of the field in the emitted body.
Assignments(f) ==
    { j \in 1..Len(output.body) : output.body[j].ident = f.ident }

AssignedOnce(f, value) ==
    /\ Cardinality(Assignments(f)) = 1
    /\ \A j \in Assignments(f) : output.body[j].value = value

\* The position at which a field name is declared.
DeclaredAt(ident) ==
    CHOOSE k \in 1..Len(input.fields) : input.fields[k].ident = ident

\* The four-step resolution rule.
Resolution(f) ==
    IF f.required THEN "Parameter"
    ELSE IF f.default THEN "Defaulted"
    ELSE IF Recognized(f.ty) THEN "Defaulted"
    ELSE "Parameter"

ErrorSet == { errors[i] : i \in 1..Len(errors) }

\* C1: every field with neither directive whose type is not a recognized
\* Option type, path or not, is an argument of the emitted constructor.
C1_FallThroughIsParameter ==
    Emitted =>
        \A f \in Fields : Neither(f) /\ ~Recognized(f.ty) => IsParameter(f)

\* C2: `required` alone makes the field a parameter and `default` alone
\* makes it defaulted, whatever the shape of its type.
C2_DirectiveBeatsTypeShape ==
    Emitted =>
        \A f \in Fields :
            /\ f.required /\ ~f.default =>
                   IsParameter(f) /\ AssignedOnce(f, "argument")
            /\ f.default /\ ~f.required =>
                   ~ParameterNamed(f) /\ AssignedOnce(f, "default")

\* A required Option field next to a defaulted field that is no Option.
C2_Witness ==
    /\ Emitted
    /\ \E f \in Fields : f.required /\ f.ty \in OptionSpellings
                         /\ IsParameter(f)
    /\ \E f \in Fields : f.default /\ ~Recognized(f.ty)
                         /\ AssignedOnce(f, "default")

\* C3: a field with neither directive written in any of the Option
\* spellings is left out of the arguments and set to its default.
C3_EverySpellingDefaulted ==
    Emitted =>
        \A f \in Fields :
            Neither(f) /\ f.ty \in OptionSpellings =>
                ~ParameterNamed(f) /\ AssignedOnce(f, "default")

\* A bare Option field and a ::std::option::Option field, both defaulted.
C3_Witness ==
    /\ Emitted
    /\ output.arguments = <<>>
    /\ \E f \in Fields : Neither(f) /\ f.ty = TypePath(FALSE, <<"Option">>)
    /\ \E f \in Fields :
           Neither(f) /\ f.ty = TypePath(TRUE, <<"std", "option", "Option">>)

\* C4: path_is_option is true exactly for the one-segment `Option` without
\* a leading `::` and for the three-segment core|std :: option :: Option.
C4_OnlyTheListedShapes ==
    pathPc = "returned" =>
        (is_option <=>
            \/ ~path.leading_colon /\ path.segments = <<"Option">>
            \/ /\ Len(path.segments) = 3
               /\ path.segments[1] \in {"core", "std"}
               /\ path.segments[2] = "option"
               /\ path.segments[3] = "Option")

\* C5: the parameter list is the declared fields that resolve to Parameter,
\* in declaration order, named and typed as declared.
C5_ParametersAreTheParameterFields ==
    Emitted =>
        LET params == SelectSeq(input.fields,
                                LAMBDA f : Resolution(f) = "Parameter")
        IN  output.arguments = [i \in 1..Len(params) |-> Argument(params[i])]

\* C6: a field with both directives is reported as ConflictingDirectives,
\* citing the field, and no constructor is emitted for its record.
C6_ConflictIsAllOrNothing ==
    (\E f \in Fields : Conflicting(f)) =>
        /\ output.kind # "impl"
        /\ pc = "done" =>
               /\ output.kind = "compile_error"
               /\ input.shape = "struct_named" =>
                      \A f \in Fields :
                          Conflicting(f) => ConflictingDirectives(f) \in ErrorSet

\* A named struct whose last field conflicts, after a well-formed field.
C6_Witness ==
    /\ pc = "done"
    /\ input.shape = "struct_named"
    /\ Len(input.fields) = 2
    /\ ~Conflicting(input.fields[1])
    /\ Conflicting(input.fields[2])
    /\ output.kind = "compile_error"

\* C7: the function is named by the `name` override, else `new`, and
\* exposed at the `visibility` override, else the record's own visibility.
C7_OverridesElseDefaults ==
    Emitted =>
        /\ output.name = IF input.name # None THEN input.name ELSE "new"
        /\ output.vis = IF input.visibility # None THEN input.visibility
                        ELSE input.vis

\* A name override without a visibility override.
C7_Witness ==
    /\ Emitted
    /\ input.name = "from_name"
    /\ input.visibility = None
    /\ output.name = "from_name"
    /\ output.vis = "pub"

\* C8 as stated: the body assigns the fields in declaration order.
C8_BodyInDeclarationOrder ==
    Emitted =>
        \A i, j \in 1..Len(output.body) :
            i < j => DeclaredAt(output.body[i].ident)
                         < DeclaredAt(output.body[j].ident)

\* C8, amended: the body assigns the argument fields first and the
\* defaulted fields after them, each group in declaration order.
C8_BodyGroupedInDeclarationOrder ==
    Emitted =>
        \A i, j \in 1..Len(output.body) :
            i < j =>
                /\ ~(output.body[i].value = "default"
                         /\ output.body[j].value = "argument")
                /\ output.body[i].value = output.body[j].value =>
                       DeclaredAt(output.body[i].ident)
                           < DeclaredAt(output.body[j].ident)

\* A defaulted field declared before an argument field.
C8_Witness ==
    /\ Emitted
    /\ Len(output.body) = 2
    /\ output.body[1] = [ident |-> 2, value |-> "argument"]
    /\ output.body[2] = [ident |-> 1, value |-> "default"]

\* C9: every record that is not a named-field struct fails with
\* UnsupportedShape and no function; every named-field struct without
\* conflicting directives yields one function and no error.
C9_OnlyNamedStructs ==
    pc = "done" =>
        /\ input.shape # "struct_named" =>
               output.kind = "compile_error" /\ UnsupportedShape \in ErrorSet
        /\ (input.shape = "struct_named"
                /\ \A f \in Fields : ~Conflicting(f)) =>
               output.kind = "impl" /\ errors = <<>>

\* A tuple struct with well-formed fields, rejected.
C9_Witness ==
    /\ pc = "done"
    /\ input.shape = "struct_tuple"
    /\ Len(input.fields) = 2
    /\ \A f \in Fields : ~Conflicting(f)
    /\ output.kind = "compile_error"
    /\ errors = <<UnsupportedShape>>

\* C10: the body assigns every declared field exactly once, a parameter
\* from its argument and a defaulted field from its default.
C10_EveryFieldAssignedOnce ==
    Emitted =>
        /\ Len(output.body) = Len(input.fields)
        /\ \A f \in Fields :
               \/ IsParameter(f) /\ AssignedOnce(f, "argument")
               \/ ~ParameterNamed(f) /\ AssignedOnce(f, "default")

====
